---- MODULE Spec2Model ----
(***************************************************************************)
(* XnnpackBackend (backends/xnnpack/runtime/XNNPACKBackend.cpp): the       *)
(* delegate lifecycle of the XNNPACK backend adapter.  The module models   *)
(* the static initialisation of the translation unit (the adapter's        *)
(* constructor, the Backend record, register_backend) and the four plugin  *)
(* entry points is_available, init, execute and destroy, called by a host  *)
(* that keeps to the delegate contract: execute and destroy are given      *)
(* handles that init returned and that were not destroyed yet (destroy may *)
(* also be given nullptr).                                                 *)
(***************************************************************************)
EXTENDS Integers, Sequences, FiniteSets, TLC

\* Number of init calls the host makes (one arena slot and one processed
\* payload per call).
MaxInits == 2

\* nullptr, for handles and for workspace_.
Null == 0

\* A value xnn_create_workspace may leave in *workspace_out when it fails.
Junk == -1

\* Error codes (runtime/core/error.h).
Ok == "Ok"

Internal == "Internal"

\* Input shapes [1,4] and [1,8], by their second dimension.
Shapes == {4, 8}

\* xnn_status values, as far as the adapter distinguishes them.
XnnStatus == {"xnn_status_success", "xnn_status_failure"}

\* What XNNCompiler::compileModel answers for a payload: a valid payload
\* compiles or fails on a resource; a malformed one is rejected.
CompileResults(valid) ==
    IF valid THEN {Ok, Internal} ELSE {"InvalidProgram"}

\* What the sub-steps of XNNExecutor answer: prepare_args rejects arguments
\* that do not fit the plan, forward fails in the library, resize_outputs
\* fails on an output it cannot resize.
PrepareErrors == {Ok, "InvalidArgument"}

ForwardErrors == {Ok, Internal}

ResizeErrors == {Ok, "NotSupported"}

\* What register_backend answers.
RegisterResults == {Ok, "InvalidArgument"}

\* The error ET_ALLOCATE_INSTANCE_OR_RETURN_ERROR returns when the arena
\* has no storage ("Internal (workspace missing, allocator exhausted)").
AllocError == Internal

Slots == 1..MaxInits

VARIABLES
    pc,                     \* position in the static initialisers, then "host"
    ENABLE_XNNPACK_PROFILING, \* build flag
    xnn_initialized,        \* the library's global state
    ctor_log,               \* what the constructor logged
    workspace_,             \* XnnpackBackend::workspace_
    workspaces,             \* workspace instances xnn_create_workspace made
    scratch,                \* what the workspace's memory holds
    backend,                \* the Backend record {"XnnpackBackend", &cls}
    success_with_compiler,  \* result of register_backend
    registry,               \* names registered with the host, in order
    executors,              \* arena slot -> XNNExecutor object
    nalloc,                 \* arena slots handed out
    processed,              \* init call -> FreeableBuffer
    ninit,                  \* init calls made
    dumps,                  \* print_avg_op_timings calls
    tokens,                 \* handles the host holds
    last,                   \* the call that just returned
    prev,                   \* the call before it
    loads,                  \* how often each static initialiser has run
    threads                 \* host thread -> where it is in execute

vars == <<pc, ENABLE_XNNPACK_PROFILING, xnn_initialized, ctor_log, workspace_,
          workspaces, scratch, backend, success_with_compiler, registry, executors,
          nalloc, processed, ninit, dumps, tokens, last, prev, loads,
          threads>>

\* Host threads that call execute at the same time.
Threads == {"T1", "T2"}

\* A host thread that is in no call.
IdleThread == [at |-> "idle", handle |-> Null, shape |-> 0, trace |-> <<>>]

\* Storage of an XNNExecutor that the arena has not handed out.
RawExecutor ==
    [allocated |-> FALSE, ctor |-> 0, dtor |-> 0, runtime |-> Null,
     workspace |-> Null, in_shape |-> 0, out_shape |-> 0]

\* A processed payload the host has not passed to init yet.
FreshBuffer == [valid |-> FALSE, frees |-> 0, reads |-> 0, read_after_free |-> FALSE]

NoCall ==
    [op |-> "none", result |-> Ok, available |-> FALSE, handle |-> Null,
     executor |-> Null, payload |-> Null, shape |-> 0, out |-> 0,
     trace |-> <<>>]

\* What is kept of the call before the last one: that it was an init that
\* returned a handle, or an execute that returned an error, and on which
\* handle; or that it was neither.
Brief(c) ==
    IF (c.op = "init" /\ c.result = Ok) \/ (c.op = "execute" /\ c.result # Ok)
    THEN [op |-> c.op, handle |-> c.handle]
    ELSE [op |-> "other", handle |-> Null]

Ev(step, err) == [step |-> step, err |-> err]

\* The adapter's state and what it reaches, as one value the entry points
\* transform.
Heap ==
    [ws |-> workspace_, nws |-> workspaces, xnn |-> xnn_initialized,
     scratch |-> scratch, ex |-> executors, pr |-> processed,
     dumps |-> dumps, out |-> 0, tr |-> <<>>]

Live(x) == x.ctor = 1 /\ x.dtor = 0

(***************************************************************************)
(* The collaborators: the arena, the library, FreeableBuffer, XNNExecutor  *)
(* and XNNCompiler, each as a step on the heap that appends itself to the  *)
(* call's trace.                                                           *)
(***************************************************************************)

\* xnn_initialize(nullptr): the library's global state is set up once.
XnnInitialize(S, status) ==
    [S EXCEPT !.xnn = @ \/ (status = "xnn_status_success"),
              !.tr = Append(@, Ev("xnn_initialize", status))]

\* xnn_create_workspace(&workspace_): a new instance on success; on failure
\* the out parameter holds whatever the library left there.
XnnCreateWorkspace(S, status, out) ==
    IF status = "xnn_status_success"
    THEN [S EXCEPT !.ws = S.nws + 1, !.nws = @ + 1,
                   !.tr = Append(@, Ev("xnn_create_workspace", status))]
    ELSE [S EXCEPT !.ws = out,
                   !.tr = Append(@, Ev("xnn_create_workspace", status))]

\* get_runtime_allocator()->allocate for one XNNExecutor.
Allocate(S, e) ==
    [S EXCEPT !.ex[e].allocated = TRUE, !.tr = Append(@, Ev("allocate", Ok))]

AllocateFails(S) == [S EXCEPT !.tr = Append(@, Ev("allocate", AllocError))]

\* new (executor) XNNExecutor: runtime_ is nullptr afterwards.
Construct(S, e) ==
    [S EXCEPT !.ex[e].ctor = @ + 1, !.ex[e].runtime = Null,
              !.ex[e].workspace = Null, !.ex[e].in_shape = 0,
              !.ex[e].out_shape = 0,
              !.tr = Append(@, Ev("construct", Ok))]

\* executor->~XNNExecutor(): the runtime, the bindings and the workspace
\* reference go.
Destruct(S, e) ==
    [S EXCEPT !.ex[e].dtor = @ + 1, !.ex[e].runtime = Null,
              !.ex[e].workspace = Null, !.ex[e].in_shape = 0,
              !.ex[e].out_shape = 0,
              !.tr = Append(@, Ev("destruct", Ok))]

\* XNNCompiler::compileModel(data, size, executor, allocator, workspace):
\* reads the payload and, on success, gives the executor a runtime built
\* from it and bound to the workspace.
CompileModel(S, e, p, ws, err) ==
    LET R == [S EXCEPT !.pr[p].reads = @ + 1,
                       !.pr[p].read_after_free = @ \/ (S.pr[p].frees > 0),
                       !.tr = Append(@, Ev("compileModel", err))]
    IN  IF err = Ok
        THEN [R EXCEPT !.ex[e].runtime = p, !.ex[e].workspace = ws]
        ELSE R

\* processed->Free().
Free(S, p) ==
    [S EXCEPT !.pr[p].frees = @ + 1, !.tr = Append(@, Ev("Free", Ok))]

\* executor->prepare_args(args): binds the arguments and propagates the
\* input shape into the plan.
PrepareArgs(S, e, shape, err) ==
    LET R == [S EXCEPT !.tr = Append(@, Ev("prepare_args", err))]
    IN  IF err = Ok THEN [R EXCEPT !.ex[e].in_shape = shape] ELSE R

\* The first half of forward: the run's intermediate values go into the
\* workspace.
ForwardEnter(S, e) == [S EXCEPT !.scratch = S.ex[e].in_shape]

\* The second half of forward: the outputs are computed from what the
\* workspace holds, and forward returns.
ForwardLeave(S, e, err) ==
    LET R == [S EXCEPT !.tr = Append(@, Ev("forward", err))]
    IN  IF err = Ok THEN [R EXCEPT !.ex[e].out_shape = S.scratch] ELSE R

\* executor->forward(context): runs the plan on the bound arguments, with
\* the shared workspace as its scratch memory: the intermediate values of
\* this run are written there (also by a run that fails) and the outputs
\* are computed from them.  The plan keeps the shape of its input.
Forward(S, e, err) == ForwardLeave(ForwardEnter(S, e), e, err)

\* executor->resize_outputs(args): the host's output entry takes the shape
\* the plan produced.
ResizeOutputs(S, e, err) ==
    LET R == [S EXCEPT !.tr = Append(@, Ev("resize_outputs", err))]
    IN  IF err = Ok THEN [R EXCEPT !.out = S.ex[e].out_shape] ELSE R

\* executor->print_avg_op_timings().
PrintAvgOpTimings(S, e) ==
    [S EXCEPT !.dumps = @ + 1, !.tr = Append(@, Ev("print_avg_op_timings", Ok))]

Return(S, result, handle) == [heap |-> S, result |-> result, handle |-> handle]

(***************************************************************************)
(* The adapter.                                                            *)
(***************************************************************************)

\* The constructor without line 44: workspace_ keeps what the failed
\* xnn_create_workspace left in it.
XnnpackBackendNoReset(S, status1, status2, out) ==
    LET S1 == XnnInitialize(S, status1)
    IN  IF status1 # "xnn_status_success"
        THEN Return(S1, "Failed to initialize", Null)
        ELSE LET S2 == XnnCreateWorkspace(S1, status2, out)
             IN  IF status2 # "xnn_status_success"
                 THEN Return(S2, "Failed to create XNN workspace", Null)
                 ELSE Return(S2, "Created XNN workspace", Null)

\* XnnpackBackend::XnnpackBackend().  cls has static storage, so workspace_
\* is zero before the constructor runs and stays so on the first return.
XnnpackBackend(S, status1, status2, out) ==
    LET S1 == XnnInitialize(S, status1)
    IN  IF status1 # "xnn_status_success"
        THEN Return(S1, "Failed to initialize", Null)
        ELSE LET S2 == XnnCreateWorkspace(S1, status2, out)
             IN  IF status2 # "xnn_status_success"
                 THEN Return([S2 EXCEPT !.ws = Null],
                             "Failed to create XNN workspace", Null)
                 ELSE Return(S2, "Created XNN workspace", Null)

\* is_available that answers from the adapter's own state instead of asking
\* the library.
is_availableFromWorkspace(S, status) ==
    Return(XnnInitialize(S, status), S.ws # Null, Null)

\* XnnpackBackend::is_available().
is_available(S, status) ==
    Return(XnnInitialize(S, status), "xnn_status_success" = status, Null)

\* init without the workspace check.
WorkspaceCheckSkipped(ws) == TRUE

\* ET_CHECK_OR_RETURN_ERROR(workspace_ != nullptr, Internal, ...).
WorkspaceCheck(ws) == ws # Null

\* init that creates the workspace when it finds none.
initLazyWorkspace(S, e, p, allocOk, err) ==
    IF ~allocOk
    THEN Return(AllocateFails(S), AllocError, Null)
    ELSE LET S0 == Construct(Allocate(S, e), e)
             S1 == IF S0.ws = Null
                   THEN XnnCreateWorkspace(S0, "xnn_status_success", Null)
                   ELSE S0
             S2 == Free(CompileModel(S1, e, p, S1.ws, err), p)
         IN  IF err # Ok
             THEN Return(Destruct(S2, e), err, Null)
             ELSE Return(S2, Ok, e)

\* init that goes on when the arena gave no storage.
initNoAllocCheck(S, e, p, allocOk, err) ==
    LET S1 == Construct(IF allocOk THEN Allocate(S, e) ELSE AllocateFails(S), e)
    IN  IF ~WorkspaceCheck(S1.ws)
        THEN Return(S1, Internal, Null)
        ELSE LET S2 == Free(CompileModel(S1, e, p, S1.ws, err), p)
             IN  IF err # Ok
                 THEN Return(Destruct(S2, e), err, Null)
                 ELSE Return(S2, Ok, e)

\* init that gives compileModel a second try when the first failed.
initRetriesCompile(S, e, p, allocOk, err) ==
    IF ~allocOk
    THEN Return(AllocateFails(S), AllocError, Null)
    ELSE LET S1 == Construct(Allocate(S, e), e)
         IN  IF ~WorkspaceCheck(S1.ws)
             THEN Return(S1, Internal, Null)
             ELSE LET C1 == CompileModel(S1, e, p, S1.ws, err)
                      C2 == IF err # Ok
                            THEN CompileModel(C1, e, p, S1.ws, err) ELSE C1
                      S2 == Free(C2, p)
                  IN  IF err # Ok
                      THEN Return(Destruct(S2, e), err, Null)
                      ELSE Return(S2, Ok, e)

\* init whose failure path falls through to "return executor".
initReturnsDestructed(S, e, p, allocOk, err) ==
    IF ~allocOk
    THEN Return(AllocateFails(S), AllocError, Null)
    ELSE LET S1 == Construct(Allocate(S, e), e)
         IN  IF ~WorkspaceCheck(S1.ws)
             THEN Return(S1, Internal, Null)
             ELSE LET S2 == Free(CompileModel(S1, e, p, S1.ws, err), p)
                  IN  IF err # Ok
                      THEN Return(Destruct(S2, e), Ok, e)
                      ELSE Return(S2, Ok, e)

\* init that releases the payload before compiling it.
initFreesBeforeCompile(S, e, p, allocOk, err) ==
    IF ~allocOk
    THEN Return(AllocateFails(S), AllocError, Null)
    ELSE LET S1 == Construct(Allocate(S, e), e)
         IN  IF ~WorkspaceCheck(S1.ws)
             THEN Return(S1, Internal, Null)
             ELSE LET S2 == CompileModel(Free(S1, p), e, p, S1.ws, err)
                  IN  IF err # Ok
                      THEN Return(Destruct(S2, e), err, Null)
                      ELSE Return(S2, Ok, e)

\* XnnpackBackend::init(context, processed, compile_specs).  e is the slot
\* the arena hands out, p the payload, allocOk whether the arena has
\* storage, err what compileModel answers.
init(S, e, p, allocOk, err) ==
    IF ~allocOk
    THEN Return(AllocateFails(S), AllocError, Null)
    ELSE LET S1 == Construct(Allocate(S, e), e)
         IN  IF ~WorkspaceCheck(S1.ws)
             THEN Return(S1, Internal, Null)
             ELSE LET S2 == Free(CompileModel(S1, e, p, S1.ws, err), p)
                  IN  IF err # Ok
                      THEN Return(Destruct(S2, e), err, Null)
                      ELSE Return(S2, Ok, e)

\* execute that runs the forward pass whatever prepare_args answered.
executeNoShortCircuit(S, handle, shape, err1, err2, err3) ==
    LET S1 == PrepareArgs(S, handle, shape, err1)
        S2 == Forward(S1, handle, err2)
    IN  IF err1 # Ok
        THEN Return(S2, err1, handle)
        ELSE IF err2 # Ok
             THEN Return(S2, err2, handle)
             ELSE Return(ResizeOutputs(S2, handle, err3), err3, handle)

\* execute that tears the handle down when a sub-step fails.
executeRollsBack(S, handle, shape, err1, err2, err3) ==
    LET S1 == PrepareArgs(S, handle, shape, err1)
    IN  IF err1 # Ok
        THEN Return(Destruct(S1, handle), err1, handle)
        ELSE LET S2 == Forward(S1, handle, err2)
             IN  IF err2 # Ok
                 THEN Return(Destruct(S2, handle), err2, handle)
                 ELSE Return(ResizeOutputs(S2, handle, err3), err3, handle)

\* execute that binds the arguments in every live executor of the adapter,
\* as if the bindings were kept with the shared workspace.
executeSharedBinding(S, handle, shape, err1, err2, err3) ==
    LET S0 == PrepareArgs(S, handle, shape, err1)
        S1 == [S0 EXCEPT !.ex = [g \in DOMAIN S0.ex |->
                  IF err1 = Ok /\ Live(S0.ex[g])
                  THEN [S0.ex[g] EXCEPT !.in_shape = shape]
                  ELSE S0.ex[g]]]
    IN  IF err1 # Ok
        THEN Return(S1, err1, handle)
        ELSE LET S2 == Forward(S1, handle, err2)
             IN  IF err2 # Ok
                 THEN Return(S2, err2, handle)
                 ELSE Return(ResizeOutputs(S2, handle, err3), err3, handle)

\* XnnpackBackend::execute(context, handle, args).
execute(S, handle, shape, err1, err2, err3) ==
    LET S1 == PrepareArgs(S, handle, shape, err1)
    IN  IF err1 # Ok
        THEN Return(S1, err1, handle)
        ELSE LET S2 == Forward(S1, handle, err2)
             IN  IF err2 # Ok
                 THEN Return(S2, err2, handle)
                 ELSE Return(ResizeOutputs(S2, handle, err3), err3, handle)

\* destroy with the timing dump ahead of the null check.
destroyDumpsBeforeCheck(S, handle) ==
    LET S1 == IF ENABLE_XNNPACK_PROFILING
              THEN PrintAvgOpTimings(S, handle) ELSE S
    IN  IF handle # Null
        THEN Return(Destruct(S1, handle), Ok, handle)
        ELSE Return(S1, Ok, handle)

\* destroy without the destructor call.
destroySkipsDestructor(S, handle) ==
    IF handle # Null
    THEN LET S1 == IF ENABLE_XNNPACK_PROFILING
                   THEN PrintAvgOpTimings(S, handle) ELSE S
         IN  Return(S1, Ok, handle)
    ELSE Return(S, Ok, handle)

\* destroy that also hands the executor's storage back.
destroyFreesStorage(S, handle) ==
    IF handle # Null
    THEN LET S1 == IF ENABLE_XNNPACK_PROFILING
                   THEN PrintAvgOpTimings(S, handle) ELSE S
             S2 == Destruct(S1, handle)
         IN  Return([S2 EXCEPT !.ex[handle].allocated = FALSE,
                               !.tr = Append(@, Ev("deallocate", Ok))],
                    Ok, handle)
    ELSE Return(S, Ok, handle)

\* XnnpackBackend::destroy(handle).
destroy(S, handle) ==
    IF handle # Null
    THEN LET S1 == IF ENABLE_XNNPACK_PROFILING
                   THEN PrintAvgOpTimings(S, handle) ELSE S
         IN  Return(Destruct(S1, handle), Ok, handle)
    ELSE Return(S, Ok, handle)

(***************************************************************************)
(* The state machine.                                                      *)
(***************************************************************************)

Commit(S) ==
    /\ workspace_' = S.ws
    /\ workspaces' = S.nws
    /\ scratch' = S.scratch
    /\ xnn_initialized' = S.xnn
    /\ executors' = S.ex
    /\ processed' = S.pr
    /\ dumps' = S.dumps

Called(c) ==
    /\ last' = c
    /\ prev' = Brief(last)

Init ==
    /\ pc = "cls"
    /\ ENABLE_XNNPACK_PROFILING \in BOOLEAN
    /\ xnn_initialized = FALSE
    /\ ctor_log = "none"
    /\ workspace_ = Null
    /\ workspaces = 0
    /\ scratch = 0
    /\ backend = [name |-> "", cls |-> FALSE]
    /\ success_with_compiler = "unset"
    /\ registry = <<>>
    /\ executors = [e \in Slots |-> RawExecutor]
    /\ nalloc = 0
    /\ processed = [p \in Slots |-> FreshBuffer]
    /\ ninit = 0
    /\ dumps = 0
    /\ tokens = {}
    /\ last = NoCall
    /\ prev = Brief(NoCall)
    /\ loads = [cls |-> 0, backend |-> 0, register_backend |-> 0]
    /\ threads = [t \in Threads |-> IdleThread]

\* auto cls = XnnpackBackend();
ConstructCls ==
    /\ pc = "cls"
    /\ \E status1 \in XnnStatus, status2 \in XnnStatus, out \in {Null, Junk} :
          LET r == XnnpackBackend(Heap, status1, status2, out)
          IN  /\ Commit(r.heap)
              /\ ctor_log' = r.result
              /\ Called([NoCall EXCEPT !.op = "XnnpackBackend",
                                       !.trace = r.heap.tr])
    /\ pc' = "backend"
    /\ loads' = [loads EXCEPT !.cls = @ + 1]
    /\ UNCHANGED <<threads, ENABLE_XNNPACK_PROFILING, backend, success_with_compiler,
                   registry, nalloc, ninit, tokens>>

\* Backend backend{"XnnpackBackend", &cls};
MakeBackend ==
    /\ pc = "backend"
    /\ backend' = [name |-> "XnnpackBackend", cls |-> TRUE]
    /\ pc' = "register"
    /\ loads' = [loads EXCEPT !.backend = @ + 1]
    /\ UNCHANGED <<threads, ENABLE_XNNPACK_PROFILING, xnn_initialized, ctor_log,
                   workspace_, workspaces, scratch, success_with_compiler, registry,
                   executors, nalloc, processed, ninit, dumps, tokens, last,
                   prev>>

\* A registration that is tried again after the host refused it.
RegisterBackendRetry ==
    /\ pc = "register"
    /\ \E res \in RegisterResults :
          /\ success_with_compiler' = res
          /\ registry' = IF res = Ok THEN Append(registry, backend.name)
                         ELSE registry
    /\ pc' = IF success_with_compiler' = Ok THEN "host" ELSE "register"
    /\ loads' = [loads EXCEPT !.register_backend = @ + 1]
    /\ UNCHANGED <<threads, ENABLE_XNNPACK_PROFILING, xnn_initialized, ctor_log,
                   workspace_, workspaces, scratch, backend, executors, nalloc,
                   processed, ninit, dumps, tokens, last, prev>>

\* static auto success_with_compiler = register_backend(backend);  The host
\* reaches the adapter through the registry only (cls is in an anonymous
\* namespace), so it calls nothing when the registration was refused.
RegisterBackend ==
    /\ pc = "register"
    /\ \E res \in RegisterResults :
          /\ success_with_compiler' = res
          /\ registry' = IF res = Ok THEN Append(registry, backend.name)
                         ELSE registry
    /\ pc' = IF success_with_compiler' = Ok THEN "host" ELSE "unregistered"
    /\ loads' = [loads EXCEPT !.register_backend = @ + 1]
    /\ UNCHANGED <<threads, ENABLE_XNNPACK_PROFILING, xnn_initialized, ctor_log,
                   workspace_, workspaces, scratch, backend, executors, nalloc,
                   processed, ninit, dumps, tokens, last, prev>>

CallIsAvailable ==
    /\ pc = "host"
    /\ \E status \in XnnStatus :
          LET r == is_available(Heap, status)
          IN  /\ Commit(r.heap)
              /\ Called([NoCall EXCEPT !.op = "is_available",
                                       !.available = r.result,
                                       !.trace = r.heap.tr])
    /\ UNCHANGED <<threads, loads, pc, ENABLE_XNNPACK_PROFILING, ctor_log, backend,
                   success_with_compiler, registry, nalloc, ninit, tokens>>

CallInit ==
    /\ pc = "host"
    /\ ninit < MaxInits
    /\ \E allocOk \in BOOLEAN, valid \in BOOLEAN :
       \E err \in CompileResults(valid) :
          LET p == ninit + 1
              e == nalloc + 1
              r == init([Heap EXCEPT !.pr[p].valid = valid], e, p, allocOk, err)
          IN  /\ Commit(r.heap)
              /\ ninit' = p
              /\ nalloc' = IF allocOk THEN e ELSE nalloc
              /\ tokens' = IF r.result = Ok THEN tokens \cup {r.handle}
                           ELSE tokens
              /\ Called([NoCall EXCEPT !.op = "init", !.result = r.result,
                                       !.handle = r.handle,
                                       !.executor = IF allocOk THEN e ELSE Null,
                                       !.payload = p,
                                       !.trace = r.heap.tr])
    /\ UNCHANGED <<threads, loads, pc, ENABLE_XNNPACK_PROFILING, ctor_log, backend,
                   success_with_compiler, registry>>

CallExecute ==
    /\ pc = "host"
    /\ \E handle \in tokens, shape \in Shapes :
       \E err1 \in PrepareErrors :
       \E err2 \in IF err1 = Ok THEN ForwardErrors ELSE {Ok} :
       \E err3 \in IF err2 = Ok THEN ResizeErrors ELSE {Ok} :
          LET r == execute(Heap, handle, shape, err1, err2, err3)
          IN  /\ Commit(r.heap)
              /\ Called([NoCall EXCEPT !.op = "execute", !.result = r.result,
                                       !.handle = handle, !.executor = handle,
                                       !.shape = shape, !.out = r.heap.out,
                                       !.trace = r.heap.tr])
    /\ UNCHANGED <<threads, loads, pc, ENABLE_XNNPACK_PROFILING, ctor_log, backend,
                   success_with_compiler, registry, nalloc, ninit, tokens>>

CallDestroy ==
    /\ pc = "host"
    /\ \E handle \in tokens \cup {Null} :
          LET r == destroy(Heap, handle)
          IN  /\ Commit(r.heap)
              /\ tokens' = tokens \ {handle}
              /\ Called([NoCall EXCEPT !.op = "destroy", !.handle = handle,
                                       !.executor = handle,
                                       !.trace = r.heap.tr])
    /\ UNCHANGED <<threads, loads, pc, ENABLE_XNNPACK_PROFILING, ctor_log, backend,
                   success_with_compiler, registry, nalloc, ninit>>

(***************************************************************************)
(* execute called by several host threads at once, each on a handle of its *)
(* own.  The adapter takes no lock, so the threads' steps interleave       *)
(* freely; a thread is inside the forward pass between ThreadForwardEnter  *)
(* and ThreadForwardLeave.                                                 *)
(***************************************************************************)

ThreadHeap(t) == [Heap EXCEPT !.tr = threads[t].trace]

\* execute returns on thread t.
ThreadReturn(t, S, result) ==
    /\ Called([NoCall EXCEPT !.op = "execute", !.result = result,
                             !.handle = threads[t].handle,
                             !.executor = threads[t].handle,
                             !.shape = threads[t].shape, !.out = S.out,
                             !.trace = S.tr])
    /\ threads' = [threads EXCEPT ![t] = IdleThread]

\* execute goes on to its next sub-step on thread t.
ThreadGoes(t, S, at) ==
    /\ threads' = [threads EXCEPT ![t].at = at, ![t].trace = S.tr]
    /\ UNCHANGED <<last, prev>>

\* A host thread calls execute(context, handle, args) on a handle no other
\* thread is using.
ThreadBegin ==
    /\ pc = "host"
    /\ \E t \in Threads, shape \in Shapes :
       \E handle \in tokens \ {threads[u].handle : u \in Threads} :
          /\ threads[t].at = "idle"
          /\ threads' = [threads EXCEPT ![t] =
                 [at |-> "prepare_args", handle |-> handle, shape |-> shape,
                  trace |-> <<>>]]
    /\ UNCHANGED <<pc, ENABLE_XNNPACK_PROFILING, xnn_initialized, ctor_log,
                   workspace_, workspaces, scratch, backend,
                   success_with_compiler, registry, executors, nalloc,
                   processed, ninit, dumps, tokens, last, prev, loads>>

\* Error err = executor->prepare_args(args); if (err != Error::Ok) return err;
ThreadPrepareArgs ==
    /\ \E t \in Threads, err \in PrepareErrors :
          /\ threads[t].at = "prepare_args"
          /\ LET S == PrepareArgs(ThreadHeap(t), threads[t].handle,
                                  threads[t].shape, err)
             IN  /\ Commit(S)
                 /\ IF err # Ok THEN ThreadReturn(t, S, err)
                    ELSE ThreadGoes(t, S, "forward")
    /\ UNCHANGED <<pc, ENABLE_XNNPACK_PROFILING, ctor_log, backend,
                   success_with_compiler, registry, nalloc, ninit, tokens,
                   loads>>

\* err = executor->forward(context): the pass starts.
ThreadForwardEnter ==
    /\ \E t \in Threads :
          /\ threads[t].at = "forward"
          /\ LET S == ForwardEnter(ThreadHeap(t), threads[t].handle)
             IN  /\ Commit(S)
                 /\ ThreadGoes(t, S, "in_forward")
    /\ UNCHANGED <<pc, ENABLE_XNNPACK_PROFILING, ctor_log, backend,
                   success_with_compiler, registry, nalloc, ninit, tokens,
                   loads>>

\* forward returns; if (err != Error::Ok) return err;
ThreadForwardLeave ==
    /\ \E t \in Threads, err \in ForwardErrors :
          /\ threads[t].at = "in_forward"
          /\ LET S == ForwardLeave(ThreadHeap(t), threads[t].handle, err)
             IN  /\ Commit(S)
                 /\ IF err # Ok THEN ThreadReturn(t, S, err)
                    ELSE ThreadGoes(t, S, "resize_outputs")
    /\ UNCHANGED <<pc, ENABLE_XNNPACK_PROFILING, ctor_log, backend,
                   success_with_compiler, registry, nalloc, ninit, tokens,
                   loads>>

\* err = executor->resize_outputs(args); return err;
ThreadResizeOutputs ==
    /\ \E t \in Threads, err \in ResizeErrors :
          /\ threads[t].at = "resize_outputs"
          /\ LET S == ResizeOutputs(ThreadHeap(t), threads[t].handle, err)
             IN  /\ Commit(S)
                 /\ ThreadReturn(t, S, err)
    /\ UNCHANGED <<pc, ENABLE_XNNPACK_PROFILING, ctor_log, backend,
                   success_with_compiler, registry, nalloc, ninit, tokens,
                   loads>>

Next ==
    \/ ConstructCls
    \/ MakeBackend
    \/ RegisterBackend
    \/ CallIsAvailable
    \/ CallInit
    \/ CallExecute
    \/ CallDestroy

Spec == Init /\ [][Next]_vars

NextConc ==
    \/ ConstructCls
    \/ MakeBackend
    \/ RegisterBackend
    \/ CallInit
    \/ ThreadBegin
    \/ ThreadPrepareArgs
    \/ ThreadForwardEnter
    \/ ThreadForwardLeave
    \/ ThreadResizeOutputs

\* The adapter under a host that runs execute on several threads.
SpecConc == Init /\ [][NextConc]_vars

(***************************************************************************)
(* Properties.                                                             *)
(***************************************************************************)

Steps(c) == {c.trace[i].step : i \in 1..Len(c.trace)}

Count(c, step) == Cardinality({i \in 1..Len(c.trace) : c.trace[i].step = step})

\* C1: when an init call has returned, on whatever path, its processed
\* payload has been released (Free) exactly once.
C1_FreedOncePerInit ==
    last.op = "init" =>
        /\ processed[last.payload].frees = 1
        /\ Count(last, "Free") = 1

\* C2: when an init call has returned an error after it constructed the
\* handle in place, that handle's destructor has run exactly once.
C2_FailedInitDestructs ==
    (last.op = "init" /\ last.result # Ok /\ "construct" \in Steps(last)) =>
        /\ executors[last.executor].dtor = 1
        /\ Count(last, "destruct") = 1

\* C3: an init call made while workspace_ is null returns Internal and does
\* not invoke compileModel (the payload is not read).
C3_NullWorkspaceInit ==
    [][(ninit' # ninit /\ workspace_ = Null) =>
          /\ last'.op = "init"
          /\ last'.result = Internal
          /\ "compileModel" \notin Steps(last')
          /\ processed'[last'.payload].reads = 0
          /\ \A e \in Slots : executors'[e].runtime = Null]_vars

C3_Witness ==
    /\ last.op = "init"
    /\ workspace_ = Null
    /\ "construct" \in Steps(last)
    /\ last.result = Internal

\* C4: if xnn_initialize or xnn_create_workspace failed in the constructor,
\* workspace_ is null in every later state, no workspace instance exists or
\* is created later, and every init call returns Internal.
C4_DegradedForever ==
    (ctor_log \in {"Failed to initialize", "Failed to create XNN workspace"}) =>
        /\ workspace_ = Null
        /\ workspaces = 0
        /\ (last.op = "init" => last.result = Internal)
        /\ tokens = {}

C4_Witness ==
    /\ ctor_log = "Failed to create XNN workspace"
    /\ last.op = "init"
    /\ ninit = 2
    /\ prev.op = "other"

\* C5: execute invokes prepare_args, forward, resize_outputs in this order,
\* each only if the one before answered Ok, and returns the error of the
\* first that failed, or what resize_outputs answered.
C5_ExecuteOrder ==
    last.op = "execute" =>
        LET t == last.trace
            n == Len(t)
        IN  /\ n \in 1..3
            /\ t[1].step = "prepare_args"
            /\ n >= 2 => t[2].step = "forward"
            /\ n >= 3 => t[3].step = "resize_outputs"
            /\ \A i \in 1..(n - 1) : t[i].err = Ok
            /\ n < 3 => t[n].err # Ok
            /\ last.result = t[n].err

C5_Witness ==
    /\ last.op = "execute"
    /\ Len(last.trace) = 2
    /\ last.trace[1].err = Ok
    /\ last.result = Internal

\* C6: destroy(nullptr) invokes no destructor and no timing dump and leaves
\* the workspace, every executor and all other adapter state unchanged.
C6_DestroyNullNoOp ==
    [][(last'.op = "destroy" /\ last'.handle = Null) =>
          /\ last'.trace = <<>>
          /\ UNCHANGED <<workspace_, workspaces, scratch, xnn_initialized,
                         executors, processed, dumps, nalloc, ninit, tokens,
                         backend, registry, success_with_compiler>>]_vars

C6_Witness ==
    /\ last.op = "destroy"
    /\ last.handle = Null
    /\ tokens # {}
    /\ ENABLE_XNNPACK_PROFILING

\* C7: after a successful init followed at once by destroy of the handle it
\* returned, the handle was constructed once and destructed once, the
\* payload of that init has been released, and workspace_ is still the one
\* instance the constructor created.
C7_InitDestroyNoLeak ==
    (prev.op = "init" /\ last.op = "destroy" /\ last.handle = prev.handle) =>
        /\ executors[last.handle].ctor = 1
        /\ executors[last.handle].dtor = 1
        /\ executors[last.handle].runtime = Null
        /\ processed[ninit].valid
        /\ processed[ninit].frees = 1
        /\ workspace_ # Null
        /\ workspace_ = workspaces
        /\ workspaces = 1

C7_Witness ==
    /\ prev.op = "init"
    /\ last.op = "destroy"
    /\ last.handle = prev.handle
    /\ executors[last.handle].dtor = 1

\* C8: after an execute that returned an error the handle is still live;
\* a destroy that follows destructs it exactly once, and an execute that
\* follows runs on a live handle.
C8_FailedExecuteKeepsHandle ==
    /\ (last.op = "execute" /\ last.result # Ok) =>
          /\ Live(executors[last.handle])
          /\ executors[last.handle].runtime # Null
          /\ "destruct" \notin Steps(last)
    /\ (prev.op = "execute" /\ last.op = "destroy"
            /\ last.handle = prev.handle) =>
          /\ executors[last.handle].ctor = 1
          /\ executors[last.handle].dtor = 1
    /\ (prev.op = "execute" /\ last.op = "execute"
            /\ last.handle = prev.handle) =>
          /\ Live(executors[last.handle])
          /\ executors[last.handle].runtime # Null

C8_Witness ==
    /\ prev.op = "execute"
    /\ last.op = "destroy"
    /\ last.handle = prev.handle
    /\ executors[last.handle].dtor = 1

\* C9: at most one workspace instance is ever created, by the constructor;
\* after the constructor no call changes workspace_ or creates an instance;
\* every live handle the host holds references workspace_.
C9_OneWorkspace ==
    /\ [](/\ workspaces <= 1
          /\ workspace_ \in {Null, workspaces}
          /\ \A h \in tokens :
                /\ Live(executors[h])
                /\ executors[h].runtime # Null
          /\ \A e \in Slots :
                (Live(executors[e]) /\ executors[e].runtime # Null) =>
                    /\ executors[e].workspace = workspace_
                    /\ workspace_ # Null)
    /\ [][pc # "cls" => UNCHANGED <<workspace_, workspaces>>]_vars

C9_Witness ==
    /\ Cardinality(tokens) = 2
    /\ \A h \in tokens : executors[h].workspace = 1
    /\ last.op = "execute"

\* C10: an execute or destroy on one handle leaves every other executor
\* (bound arguments, propagated shapes, runtime) unchanged, and an execute
\* that returns Ok hands back the output shape of its own input shape.
C10_HandlesIndependent ==
    /\ [](last.op = "execute" /\ last.result = Ok => last.out = last.shape)
    /\ [][last'.op \in {"execute", "destroy"} =>
             \A g \in Slots \ {last'.handle} : executors'[g] = executors[g]]_vars

C10_Witness ==
    /\ last.op = "execute"
    /\ last.handle = 1
    /\ last.shape = 4
    /\ last.out = 4
    /\ 2 \in tokens
    /\ executors[2].in_shape = 8
    /\ executors[2].out_shape = 8


\* C11: is_available answers true exactly when its xnn_initialize call
\* succeeded and false when it failed, as an ordinary return value, and the
\* call leaves workspace_, the workspace instances and every executor
\* unchanged.
C11_IsAvailable ==
    /\ [](last.op = "is_available" =>
             /\ Len(last.trace) = 1
             /\ last.trace[1].step = "xnn_initialize"
             /\ last.available = (last.trace[1].err = "xnn_status_success")
             /\ pc = "host")
    /\ [][last'.op = "is_available" =>
             UNCHANGED <<workspace_, workspaces, scratch, executors,
                         processed, tokens, pc>>]_vars

C11_Witness ==
    /\ last.op = "is_available"
    /\ ~last.available
    /\ workspace_ # Null
    /\ tokens # {}


\* C12: at load one adapter and one Backend record are constructed and
\* register_backend is called once, with the name "XnnpackBackend", after
\* the adapter and the record exist and before any call of the host; from
\* then on the record, the registry and the recorded result never change,
\* whether the registration succeeded or not.
C12_RegisteredOnce ==
    /\ [](/\ loads.cls <= 1
          /\ loads.backend <= 1
          /\ loads.register_backend <= 1
          /\ loads.register_backend = 1 =>
                /\ loads.cls = 1
                /\ loads.backend = 1
                /\ ctor_log # "none"
                /\ backend = [name |-> "XnnpackBackend", cls |-> TRUE]
                /\ success_with_compiler \in RegisterResults
                /\ registry = IF success_with_compiler = Ok
                              THEN <<"XnnpackBackend">> ELSE <<>>
          /\ last.op \in {"is_available", "init", "execute", "destroy"} =>
                loads.register_backend = 1)
    /\ [][loads.register_backend = 1 =>
             UNCHANGED <<loads, backend, registry, success_with_compiler,
                         ctor_log>>]_vars

C12_Witness ==
    /\ loads = [cls |-> 1, backend |-> 1, register_backend |-> 1]
    /\ registry = <<"XnnpackBackend">>
    /\ last.op = "destroy"
    /\ last.handle # Null


\* C13: a handle that init returned is destructed by destroy only: neither
\* the successful init nor any execute destructs it, a destroy of it runs
\* the destructor exactly once, and the storage the arena handed out is
\* never given back, by destroy or otherwise.
C13_DestroyOnlyDestructs ==
    /\ (last.op = "init" /\ last.result = Ok) =>
          /\ "destruct" \notin Steps(last)
          /\ executors[last.handle].dtor = 0
    /\ last.op = "execute" =>
          /\ "destruct" \notin Steps(last)
          /\ executors[last.handle].dtor = 0
    /\ (last.op = "destroy" /\ last.handle # Null) =>
          /\ Count(last, "destruct") = 1
          /\ executors[last.handle].ctor = 1
          /\ executors[last.handle].dtor = 1
          /\ Steps(last) \subseteq {"destruct", "print_avg_op_timings"}
    /\ \A h \in tokens : executors[h].dtor = 0
    /\ \A e \in Slots : executors[e].allocated = (e <= nalloc)

C13_Witness ==
    /\ last.op = "destroy"
    /\ last.handle # Null
    /\ executors[last.handle].dtor = 1
    /\ executors[last.handle].allocated
    /\ prev.op = "other"


\* C14: when two host threads run execute at the same time on two distinct
\* handles, their forward passes against the shared workspace exclude each
\* other: never are both inside the forward pass.
C14_ForwardExclusive ==
    \A t \in Threads, u \in Threads :
        (t # u /\ threads[t].handle # threads[u].handle) =>
            ~(threads[t].at = "in_forward" /\ threads[u].at = "in_forward")


\* C15: an init call whose arena cannot provide storage for the executor
\* returns Internal, constructs no executor, does not invoke compileModel
\* and returns no handle.
C15_AllocFailure ==
    (last.op = "init" /\ last.trace[1] = Ev("allocate", AllocError)) =>
        /\ last.result = Internal
        /\ last.handle = Null
        /\ Steps(last) = {"allocate"}
        /\ processed[last.payload].reads = 0
        /\ \A e \in Slots : e > nalloc => executors[e] = RawExecutor
        /\ \A h \in tokens : h <= nalloc

C15_Witness ==
    /\ last.op = "init"
    /\ last.trace = <<Ev("allocate", AllocError)>>
    /\ workspace_ # Null
    /\ nalloc = 1


\* C16: no retries.  One init call invokes compileModel at most once and one
\* execute call invokes prepare_args, forward and resize_outputs at most
\* once each; when one of them fails, the call returns that error and
\* invokes none of them again.
C16_NoRetries ==
    /\ last.op = "init" =>
          /\ Count(last, "compileModel") <= 1
          /\ processed[last.payload].reads <= 1
          /\ \A i \in 1..Len(last.trace) :
                (last.trace[i].step = "compileModel"
                    /\ last.trace[i].err # Ok) =>
                   /\ last.result = last.trace[i].err
                   /\ \A j \in (i + 1)..Len(last.trace) :
                         last.trace[j].step \in {"Free", "destruct"}
    /\ last.op = "execute" =>
          /\ \A s \in {"prepare_args", "forward", "resize_outputs"} :
                Count(last, s) <= 1
          /\ \A i \in 1..Len(last.trace) :
                last.trace[i].err # Ok =>
                   /\ i = Len(last.trace)
                   /\ last.result = last.trace[i].err

C16_Witness ==
    /\ last.op = "init"
    /\ last.result = "InvalidProgram"
    /\ Count(last, "compileModel") = 1
    /\ prev.op = "execute"


\* C17: init returns a handle exactly when it returns Ok; the handle then is
\* an executor that is constructed, not destructed, given its runtime by a
\* compileModel call that answered Ok, and bound to the non-null workspace_.
\* When compileModel fails init returns compileModel's error and no handle.
\* The host never holds a handle that init destructed.
C17_TokenOnlyOnSuccess ==
    /\ last.op = "init" =>
          /\ (last.handle # Null) = (last.result = Ok)
          /\ last.handle # Null =>
                /\ last.handle = last.executor
                /\ last.handle \in tokens
                /\ Live(executors[last.handle])
                /\ executors[last.handle].runtime = last.payload
                /\ executors[last.handle].workspace = workspace_
                /\ workspace_ # Null
                /\ Ev("compileModel", Ok) \in
                      {last.trace[i] : i \in 1..Len(last.trace)}
                /\ "destruct" \notin Steps(last)
          /\ \A i \in 1..Len(last.trace) :
                (last.trace[i].step = "compileModel"
                    /\ last.trace[i].err # Ok) =>
                   /\ last.result = last.trace[i].err
                   /\ last.handle = Null
                   /\ last.executor \notin tokens
    /\ \A h \in tokens : Live(executors[h]) /\ executors[h].runtime # Null

C17_Witness ==
    /\ last.op = "init"
    /\ last.result = Internal
    /\ "compileModel" \in Steps(last)
    /\ executors[last.executor].dtor = 1
    /\ tokens # {}


\* C18: the payload is read by compileModel only and never after Free was
\* invoked on it; within an init call Free comes after compileModel has
\* returned, and only then.
C18_NoReadAfterFree ==
    /\ \A p \in Slots :
          /\ ~processed[p].read_after_free
          /\ processed[p].frees > 0 => processed[p].reads = 1
    /\ last.op = "init" =>
          /\ processed[last.payload].reads = Count(last, "compileModel")
          /\ \A i \in 1..Len(last.trace) :
                last.trace[i].step = "Free" =>
                   /\ i > 1
                   /\ last.trace[i - 1].step = "compileModel"
                   /\ \A j \in (i + 1)..Len(last.trace) :
                         last.trace[j].step # "compileModel"

C18_Witness ==
    /\ last.op = "init"
    /\ processed[last.payload].frees = 1
    /\ processed[last.payload].reads = 1
    /\ last.result = "InvalidProgram"

====
